---- MODULE Spec2Model ----
(***************************************************************************)
(* Model of the quevadis session hub (backend/hub.go): the serialized core *)
(* that owns the users, challenges and games maps and resolves the all-pay *)
(* bidding rounds.  Every handler of Hub.run is one atomic action; SpecCore *)
(* takes the sends of a handler and the removal goroutines step by step.   *)
(***************************************************************************)
EXTENDS Integers, Sequences, FiniteSets, TLC

\* ---------------------------------------------------------------- constants
MAX_STEPS == 3
INITIAL_BUDGET == 20
CHALLENGE_EXPIRY == 60

\* ------------------------------------------------------------------- bounds
\* connections accepted, resolved rounds kept in the map, last clock value
MaxUsers == 2
MaxHistory == 4
MaxNow == 61
\* capacity of a connection's send channel
SendCap == 2
\* capacity of h.handleMessage (256 in newHub)
QueueCap == 2

\* the ids uuid.New() hands out, in the order it hands them out
UserIds == 1..MaxUsers
ChallengeIds == {1, 2, 3}
GameIds == {1, 2}
\* the challenge ids handed out in the lobby specification
LobbyChallengeIds == {1, 2}

\* bids a client of the lobby specification may send (all-in: valid with a
\* full balance, over the balance once it is spent)
BidValues == {20}
\* bids a client of the single-match specification may send (-1 is invalid;
\* 5, 15 and 20 are valid or over the balance, depending on what is left)
MatchBidValues == {-1, 0, 5, 15, 20}
\* bids a client of the resign specification may send
ResignBidValues == {0, 5, 20}
\* bids a client of the step-by-step specification may send
CoreBidValues == {20}
\* the bids of the players where every event reaches one match
EventBidValues == {0, 20}
\* amounts by which the wall clock advances between two hub events
TickSteps == {60, 61}

VARIABLES
    clients,     \* h.clients: registered connections (a connection is named by its user id)
    users,       \* keys of h.users
    userRec,     \* the User objects: InGame flag and GameID
    challenges,  \* h.challenges: id -> Challenge
    games,       \* h.games: id -> Game
    timers,      \* game ids with a sleeping "delete(h.games, id)" goroutine
    now,         \* wall clock, seconds
    fresh,       \* how many user, challenge and game ids uuid.New() has handed out
    out,         \* outbound messages produced by the last step, in send order
    script,      \* the scripted clients: the rounds they play and how many bids they sent
    core,        \* where the hub goroutine is: in its select, or sending the n+1-th
                 \* envelope of out; armed: the removal goroutines that were asleep
                 \* when the handler started
    send,        \* client.send: how many envelopes each connection's channel holds
    queue        \* the inbound channels of the hub: the envelopes waiting in
                 \* h.handleMessage and the connections waiting to hand themselves
                 \* to h.unregister

vars == <<clients, users, userRec, challenges, games, timers, now, fresh, out,
          script, core, send, queue>>

\* the maps of the hub, the sleeping removals, the clock and the id source
hubVars == <<clients, users, userRec, challenges, games, timers, now, fresh>>

\* what the handlers of the hub neither read nor write
env == <<script, core, send, queue>>

\* ------------------------------------------------------------------ helpers
NoGame == 0
Nil == <<>>
Ptr(b) == <<b>>

Remove(f, k) == [x \in DOMAIN f \ {k} |-> f[x]]
Put(f, k, v) == [x \in DOMAIN f \cup {k} |-> IF x = k THEN v ELSE f[x]]
Restrict(f, S) == [x \in S |-> f[x]]

Min(S) == CHOOSE x \in S : \A y \in S : x <= y

\* every order in which a Go map range may visit the keys in S
Orderings(S) ==
    {s \in [1..Cardinality(S) -> S] : \A x \in S : \E i \in DOMAIN s : s[i] = x}

RECURSIVE Flatten(_)
Flatten(ss) == IF ss = <<>> THEN <<>> ELSE Head(ss) \o Flatten(Tail(ss))

\* ------------------------------------------------------------------ outbox
\* sendToUser / sendToClient: one envelope on the connection of `to`
sendError(to, text) == <<[to |-> to, type |-> "error", username |-> text]>>

UserList(us, rec) == [u \in us |-> rec[u].InGame]

\* broadcastUserList: users_update with the (id, inGame) list to every user
broadcastUserList(us, rec, order) ==
    [i \in 1..Len(order) |->
        [to |-> order[i], type |-> "users_update", users |-> UserList(us, rec)]]

\* the int fields of Message, all tagged omitempty
IntFields == {"yourPlayer", "bid", "turn", "p1Balance", "p2Balance", "p1Bid", "p2Bid",
              "p1Position", "p2Position", "winner"}

\* sendToClient: json.Marshal(msg) leaves out every int field that holds 0
Marshal(m) == [f \in {k \in DOMAIN m : k \in IntFields => m[k] # 0} |-> m[f]]

\* json.Unmarshal into a Message: an int field that is not in the data is 0
Unmarshal(d) == [f \in DOMAIN d \cup IntFields |-> IF f \in DOMAIN d THEN d[f] ELSE 0]

\* mutant: the snapshot still names the round that was just resolved
sendWaitingForBids_Resolved(gid, gm) ==
    LET m(to) == [to |-> to, type |-> "waiting_for_bids", gameId |-> gid,
                  turn |-> gm.CurrentRound - 1,
                  p1Balance |-> gm.Player1Balance, p2Balance |-> gm.Player2Balance,
                  p1Position |-> gm.Player1Pos, p2Position |-> gm.Player2Pos]
    IN <<m(gm.Player1), m(gm.Player2)>>

sendWaitingForBids(gid, gm) ==
    LET m(to) == [to |-> to, type |-> "waiting_for_bids", gameId |-> gid,
                  turn |-> gm.CurrentRound,
                  p1Balance |-> gm.Player1Balance, p2Balance |-> gm.Player2Balance,
                  p1Position |-> gm.Player1Pos, p2Position |-> gm.Player2Pos]
    IN <<m(gm.Player1), m(gm.Player2)>>

\* --------------------------------------------------------------- game logic
NewGame(p1, p2) ==
    [Player1 |-> p1, Player2 |-> p2, CurrentRound |-> 1,
     Status |-> "WAITING_FOR_BIDS",
     Player1Pos |-> 0, Player2Pos |-> 0,
     Player1Balance |-> INITIAL_BUDGET, Player2Balance |-> INITIAL_BUDGET,
     Player1Bid |-> Nil, Player2Bid |-> Nil,
     GameOver |-> FALSE, Winner |-> 0, History |-> <<>>]

\* handleSubmitBid: which player of the game the sender is (0: neither)
PlayerNum(gm, u) ==
    IF gm.Player1 = u THEN 1 ELSE IF gm.Player2 = u THEN 2 ELSE 0

BalanceOf(gm, n) == IF n = 1 THEN gm.Player1Balance ELSE gm.Player2Balance

\* mutant: the upper range check is dropped
BidError_NoUpper(bid, balance) ==
    IF bid < 0 THEN "Bid must be non-negative" ELSE ""

\* mutant: the bid is compared with the initial budget, not with the balance
BidError_Budget(bid, balance) ==
    IF bid < 0 THEN "Bid must be non-negative"
    ELSE IF bid > INITIAL_BUDGET THEN "Bid exceeds your balance"
    ELSE ""

\* handleSubmitBid: the two range checks, as the text of the error or ""
BidError(bid, balance) ==
    IF bid < 0 THEN "Bid must be non-negative"
    ELSE IF bid > balance THEN "Bid exceeds your balance"
    ELSE ""

\* mutant: a pending bid is never replaced
StoreBid_KeepFirst(gm, n, bid) ==
    IF n = 1
    THEN (IF gm.Player1Bid # Nil THEN gm ELSE [gm EXCEPT !.Player1Bid = Ptr(bid)])
    ELSE (IF gm.Player2Bid # Nil THEN gm ELSE [gm EXCEPT !.Player2Bid = Ptr(bid)])

\* mutant: the bid is stored for both players
StoreBid_Both(gm, n, bid) ==
    [gm EXCEPT !.Player1Bid = Ptr(bid), !.Player2Bid = Ptr(bid)]

StoreBid(gm, n, bid) ==
    IF n = 1 THEN [gm EXCEPT !.Player1Bid = Ptr(bid)]
    ELSE [gm EXCEPT !.Player2Bid = Ptr(bid)]

BothBids(gm) == gm.Player1Bid # Nil /\ gm.Player2Bid # Nil

\* mutant: the deduction is forgotten
Deduct_Forgotten(balance, bid) == balance

\* resolveRound: deduction
Deduct(balance, bid) == balance - bid

\* resolveRound: movement determination
RoundResult(p1Bid, p2Bid) ==
    IF p1Bid > p2Bid THEN "P1_WINS_ROUND"
    ELSE IF p2Bid > p1Bid THEN "P2_WINS_ROUND"
    ELSE "DRAW"

\* mutant: a tie advances player-two
P2NewPos_TieMoves(pos, p1Bid, p2Bid) == IF p2Bid >= p1Bid THEN pos + 1 ELSE pos

P1NewPos(pos, p1Bid, p2Bid) == IF p1Bid > p2Bid THEN pos + 1 ELSE pos
P2NewPos(pos, p1Bid, p2Bid) ==
    IF p1Bid > p2Bid THEN pos ELSE IF p2Bid > p1Bid THEN pos + 1 ELSE pos

\* mutant: the bankruptcy rule is tested before the positions
checkWinCondition_BankruptcyFirst(gm) ==
    IF gm.Player1Balance = 0 /\ gm.Player2Balance = 0
    THEN IF gm.Player1Pos > gm.Player2Pos
         THEN <<1, "Bankruptcy stalemate - higher position wins">>
         ELSE IF gm.Player2Pos > gm.Player1Pos
         THEN <<2, "Bankruptcy stalemate - higher position wins">>
         ELSE <<3, "Bankruptcy stalemate - draw">>
    ELSE IF gm.Player1Pos >= MAX_STEPS THEN <<1, "Reached final step">>
    ELSE IF gm.Player2Pos >= MAX_STEPS THEN <<2, "Reached final step">>
    ELSE <<0, "">>

\* mutant: two empty balances do not end the match
checkWinCondition_NoStalemate(gm) ==
    IF gm.Player1Pos >= MAX_STEPS THEN <<1, "Reached final step">>
    ELSE IF gm.Player2Pos >= MAX_STEPS THEN <<2, "Reached final step">>
    ELSE <<0, "">>

\* mutant: one empty balance is enough for the bankruptcy rule
checkWinCondition_EitherBroke(gm) ==
    IF gm.Player1Pos >= MAX_STEPS THEN <<1, "Reached final step">>
    ELSE IF gm.Player2Pos >= MAX_STEPS THEN <<2, "Reached final step">>
    ELSE IF gm.Player1Balance = 0 \/ gm.Player2Balance = 0
         THEN IF gm.Player1Pos > gm.Player2Pos
              THEN <<1, "Bankruptcy stalemate - higher position wins">>
              ELSE IF gm.Player2Pos > gm.Player1Pos
              THEN <<2, "Bankruptcy stalemate - higher position wins">>
              ELSE <<3, "Bankruptcy stalemate - draw">>
    ELSE <<0, "">>

checkWinCondition(gm) ==
    IF gm.Player1Pos >= MAX_STEPS THEN <<1, "Reached final step">>
    ELSE IF gm.Player2Pos >= MAX_STEPS THEN <<2, "Reached final step">>
    ELSE IF gm.Player1Balance = 0 /\ gm.Player2Balance = 0
         THEN IF gm.Player1Pos > gm.Player2Pos
              THEN <<1, "Bankruptcy stalemate - higher position wins">>
              ELSE IF gm.Player2Pos > gm.Player1Pos
              THEN <<2, "Bankruptcy stalemate - higher position wins">>
              ELSE <<3, "Bankruptcy stalemate - draw">>
    ELSE IF gm.Player1Pos = 0 /\ gm.Player2Pos = 0
            /\ gm.Player1Balance = 0 /\ gm.Player2Balance = 0
         THEN <<3, "No moves possible - draw">>
    ELSE <<0, "">>

\* mutant: the history keeps the last round only
Settle_LastOnly(gm) ==
    LET p1Bid == gm.Player1Bid[1]
        p2Bid == gm.Player2Bid[1]
        p1NewPos == P1NewPos(gm.Player1Pos, p1Bid, p2Bid)
        p2NewPos == P2NewPos(gm.Player2Pos, p1Bid, p2Bid)
    IN [gm EXCEPT
          !.Player1Balance = Deduct(@, p1Bid),
          !.Player2Balance = Deduct(@, p2Bid),
          !.Player1Pos = p1NewPos,
          !.Player2Pos = p2NewPos,
          !.History = <<[Turn |-> gm.CurrentRound,
                         P1Bid |-> p1Bid, P2Bid |-> p2Bid,
                         P1NewPos |-> p1NewPos, P2NewPos |-> p2NewPos,
                         Result |-> RoundResult(p1Bid, p2Bid)]>>]

\* resolveRound up to and including the history append
Settle(gm) ==
    LET p1Bid == gm.Player1Bid[1]
        p2Bid == gm.Player2Bid[1]
        p1NewPos == P1NewPos(gm.Player1Pos, p1Bid, p2Bid)
        p2NewPos == P2NewPos(gm.Player2Pos, p1Bid, p2Bid)
    IN [gm EXCEPT
          !.Player1Balance = Deduct(@, p1Bid),
          !.Player2Balance = Deduct(@, p2Bid),
          !.Player1Pos = p1NewPos,
          !.Player2Pos = p2NewPos,
          !.History = Append(@, [Turn |-> gm.CurrentRound,
                                 P1Bid |-> p1Bid, P2Bid |-> p2Bid,
                                 P1NewPos |-> p1NewPos, P2NewPos |-> p2NewPos,
                                 Result |-> RoundResult(p1Bid, p2Bid)])]

\* mutant: the next round is opened with the bids of the last one still set
resolveRound_KeepBids(gm) ==
    LET s == Settle(gm)
        w == checkWinCondition(s)
    IN IF w[1] > 0
       THEN [s EXCEPT !.GameOver = TRUE, !.Winner = w[1], !.Status = "GAME_OVER"]
       ELSE [s EXCEPT !.CurrentRound = @ + 1, !.Status = "WAITING_FOR_BIDS"]

\* resolveRound: the game record it leaves behind
resolveRound(gm) ==
    LET s == Settle(gm)
        w == checkWinCondition(s)
    IN IF w[1] > 0
       THEN [s EXCEPT !.GameOver = TRUE, !.Winner = w[1], !.Status = "GAME_OVER"]
       ELSE [s EXCEPT !.CurrentRound = @ + 1, !.Player1Bid = Nil,
                      !.Player2Bid = Nil, !.Status = "WAITING_FOR_BIDS"]

\* resolveRound: the envelopes it sends, before the users_update broadcast
ResolveMsgs(gid, gm) ==
    LET s == Settle(gm)
        w == checkWinCondition(s)
        h == s.History[Len(s.History)]
        res(to) == [to |-> to, type |-> "round_result", gameId |-> gid,
                    turn |-> gm.CurrentRound, p1Bid |-> h.P1Bid, p2Bid |-> h.P2Bid,
                    p1Position |-> h.P1NewPos, p2Position |-> h.P2NewPos,
                    p1Balance |-> s.Player1Balance, p2Balance |-> s.Player2Balance,
                    result |-> h.Result]
        end(to) == [to |-> to, type |-> "game_end", gameId |-> gid,
                    winner |-> w[1], reason |-> w[2]]
    IN <<res(gm.Player1), res(gm.Player2)>> \o
       (IF w[1] > 0 THEN <<end(gm.Player1), end(gm.Player2)>>
        ELSE sendWaitingForBids(gid, resolveRound(gm)))

\* mutant: only player-one is marked free again
ClearInGame_Player1Only(rec, gm) ==
    [u \in DOMAIN rec |->
        IF u = gm.Player1 THEN [InGame |-> FALSE, GameID |-> NoGame] ELSE rec[u]]

\* both players of a finished game are marked free again
ClearInGame(rec, gm) ==
    [u \in DOMAIN rec |->
        IF u = gm.Player1 \/ u = gm.Player2
        THEN [InGame |-> FALSE, GameID |-> NoGame] ELSE rec[u]]

\* -------------------------------------------------------------------- state
\* no scripted client
NoScript == [rounds |-> <<>>, sent |-> 0]
\* the hub waits in its select
Idle == [pc |-> "select", n |-> 0, armed |-> {}]
\* every send channel is empty
Drained == [u \in UserIds |-> 0]
\* nothing waits in the inbound channels
NoQueue == [handleMessage |-> <<>>, unregister |-> {}]
\* handlers taken as single steps: an event is handled the moment it is produced,
\* the hub is back in its select after each one and every envelope has left the
\* send channels
Atomic == core = Idle /\ send = Drained /\ queue = NoQueue

\* Hub.run, case wrapper := <-h.handleMessage: the envelope being handled comes
\* from connection u: it is the head of the channel, or, where nothing is queued,
\* u is a registered connection and hands it over directly
From(u) ==
    IF queue.handleMessage = <<>> THEN u \in clients
    ELSE Head(queue.handleMessage).client = u

Init ==
    /\ clients = {}
    /\ users = {}
    /\ userRec = [u \in UserIds |-> [InGame |-> FALSE, GameID |-> NoGame]]
    /\ challenges = <<>>
    /\ games = <<>>
    /\ timers = {}
    /\ now = 0
    /\ fresh = [user |-> 0, challenge |-> 0, game |-> 0]
    /\ out = <<>>
    /\ script = NoScript
    /\ Atomic

\* users in ascending id order (the order of delivery to distinct connections)
RECURSIVE Ascending(_)
Ascending(S) == IF S = {} THEN <<>> ELSE <<Min(S)>> \o Ascending(S \ {Min(S)})

\* ------------------------------------------------------- connect, disconnect
\* Hub.run register case + handleConnect; uuid.New() is the next unused id
handleConnect(c) ==
    /\ c = fresh.user + 1
    /\ c <= MaxUsers
    /\ fresh' = [fresh EXCEPT !.user = c]
    /\ clients' = clients \cup {c}
    /\ users' = users \cup {c}
    /\ userRec' = [userRec EXCEPT ![c] = [InGame |-> FALSE, GameID |-> NoGame]]
    /\ out' = <<[to |-> c, type |-> "welcome", userId |-> c]>>
              \o broadcastUserList(users', userRec', Ascending(users'))
    /\ UNCHANGED <<challenges, games, timers, now>>

\* mutant: only the games in which the user is player-one are found
GamesOf_Player1Only(u) == {g \in DOMAIN games : games[g].Player1 = u}

GamesOf(u) == {g \in DOMAIN games : games[g].Player1 = u \/ games[g].Player2 = u}
ChallengesOf(u) ==
    {c \in DOMAIN challenges : challenges[c].FromUser = u \/ challenges[c].ToUser = u}

Opponent(gm, u) == IF gm.Player1 = u THEN gm.Player2 ELSE gm.Player1

\* Hub.run unregister case + handleDisconnect
handleDisconnect(c) ==
    /\ c \in clients
    /\ \E og \in Orderings(GamesOf(c)), oc \in Orderings(ChallengesOf(c)) :
        LET live == {g \in GamesOf(c) : ~games[g].GameOver}
            freed == {Opponent(games[g], c) : g \in live}
            gameMsgs == [i \in 1..Len(og) |->
                IF og[i] \in live
                THEN <<[to |-> Opponent(games[og[i]], c),
                        type |-> "opponent_disconnected", gameId |-> og[i]]>>
                ELSE <<>>]
            chMsgs == [i \in 1..Len(oc) |->
                IF challenges[oc[i]].FromUser = c
                THEN <<[to |-> challenges[oc[i]].ToUser, type |-> "challenge_expired",
                        challengeId |-> oc[i], username |-> challenges[oc[i]].ToUser]>>
                ELSE <<>>]
        IN /\ userRec' = [u \in UserIds |->
                            IF u \in freed THEN [userRec[u] EXCEPT !.InGame = FALSE]
                            ELSE userRec[u]]
           /\ games' = Restrict(games, DOMAIN games \ GamesOf(c))
           /\ challenges' = Restrict(challenges, DOMAIN challenges \ ChallengesOf(c))
           /\ users' = users \ {c}
           /\ out' = Flatten(gameMsgs) \o Flatten(chMsgs)
                     \o broadcastUserList(users', userRec', Ascending(users'))
    /\ clients' = clients \ {c}
    /\ UNCHANGED <<timers, now, fresh>>

\* --------------------------------------------------------------- challenges
\* mutant: the scan for an existing (from, to) challenge finds nothing
HasPending_Never(from, to) == FALSE

HasPending(from, to) ==
    \E c \in DOMAIN challenges :
        challenges[c].FromUser = from /\ challenges[c].ToUser = to

handleChallenge(from, target) ==
    /\ From(from)
    /\ UNCHANGED <<clients, users, userRec, games, timers, now>>
    /\ IF target \notin users
       THEN out' = <<>> /\ UNCHANGED <<challenges, fresh>>
       ELSE IF userRec[target].InGame
       THEN out' = sendError(from, "User is already in a game") /\ UNCHANGED <<challenges, fresh>>
       ELSE IF HasPending(from, target)
       THEN /\ out' = sendError(from, "You already have a pending challenge to this user")
            /\ UNCHANGED <<challenges, fresh>>
       ELSE /\ fresh.challenge + 1 \in ChallengeIds
            /\ LET cid == fresh.challenge + 1
               IN /\ fresh' = [fresh EXCEPT !.challenge = cid]
                  /\ challenges' = Put(challenges, cid,
                        [FromUser |-> from, ToUser |-> target, Timestamp |-> now])
                  /\ out' = <<[to |-> target, type |-> "challenge_received",
                               challengeId |-> cid, fromUserId |-> from]>>

\* mutant: the recipient becomes player-one
NewMatch_Swapped(ch) == NewGame(ch.ToUser, ch.FromUser)

\* handleAcceptChallenge: the game it creates
NewMatch(ch) == NewGame(ch.FromUser, ch.ToUser)

handleAcceptChallenge(u, cid) ==
    /\ From(u)
    /\ UNCHANGED <<clients, users, timers, now>>
    /\ IF cid \notin DOMAIN challenges \/ challenges[cid].ToUser # u
       THEN out' = <<>> /\ UNCHANGED <<challenges, games, userRec, fresh>>
       ELSE /\ fresh.game + 1 \in GameIds
            /\ LET ch == challenges[cid]
                   gid == fresh.game + 1
                   gm == NewMatch(ch)
                   start(to, opp, n) == [to |-> to, type |-> "game_start", gameId |-> gid,
                                         opponentId |-> opp, yourPlayer |-> n]
               IN /\ fresh' = [fresh EXCEPT !.game = gid]
                  /\ games' = Put(games, gid, gm)
                  /\ userRec' = [x \in UserIds |->
                        IF x = ch.FromUser \/ x = ch.ToUser
                        THEN [InGame |-> TRUE, GameID |-> gid] ELSE userRec[x]]
                  /\ challenges' = Remove(challenges, cid)
                  /\ out' = <<start(ch.FromUser, ch.ToUser, 1), start(ch.ToUser, ch.FromUser, 2)>>
                            \o sendWaitingForBids(gid, gm)
                            \o broadcastUserList(users, userRec', Ascending(users))

handleDeclineChallenge(u, cid) ==
    /\ From(u)
    /\ UNCHANGED <<clients, users, userRec, games, timers, now, fresh>>
    /\ IF cid \notin DOMAIN challenges \/ challenges[cid].ToUser # u
       THEN out' = <<>> /\ UNCHANGED challenges
       ELSE /\ out' = <<[to |-> challenges[cid].FromUser, type |-> "challenge_declined",
                         challengeId |-> cid]>>
            /\ challenges' = Remove(challenges, cid)

\* mutant: no challenge ever expires
Expired_Never(ch, t) == FALSE

\* mutant: a challenge expires once it is CHALLENGE_EXPIRY old
Expired_AtLeast(ch, t) == t - ch.Timestamp >= CHALLENGE_EXPIRY

Expired(ch, t) == t - ch.Timestamp > CHALLENGE_EXPIRY

\* Hub.run ticker case
checkExpiredChallenges ==
    LET old == {c \in DOMAIN challenges : Expired(challenges[c], now)}
    IN /\ \E o \in Orderings(old) :
            out' = [i \in 1..Len(o) |->
                      [to |-> challenges[o[i]].FromUser, type |-> "challenge_expired",
                       challengeId |-> o[i], username |-> challenges[o[i]].ToUser]]
       /\ challenges' = Restrict(challenges, DOMAIN challenges \ old)
       /\ UNCHANGED <<clients, users, userRec, games, timers, now, fresh>>

\* -------------------------------------------------------------------- games
RECURSIVE SumRounds(_)
SumRounds(S) ==
    IF S = {} THEN 0
    ELSE LET g == Min(S) IN Len(games[g].History) + SumRounds(S \ {g})

\* resolved rounds recorded in the games of the map
TotalRounds == SumRounds(DOMAIN games)

\* the step leaves at most n resolved rounds in the map: the specifications stop
\* resolving rounds there
RoundsWithin(n) == TotalRounds' <= n

\* a round is resolved by this submit_bid: the bid is valid and completes the pair
Resolves(u, gid, bid) ==
    /\ gid \in DOMAIN games
    /\ PlayerNum(games[gid], u) # 0
    /\ BidError(bid, BalanceOf(games[gid], PlayerNum(games[gid], u))) = ""
    /\ BothBids(StoreBid(games[gid], PlayerNum(games[gid], u), bid))

\* handleSubmitBid for player u of the match record gm: the record it leaves
SubmitGame(gm, u, bid) ==
    LET n == PlayerNum(gm, u)
        st == StoreBid(gm, n, bid)
    IN IF BidError(bid, BalanceOf(gm, n)) # "" THEN gm
       ELSE IF ~BothBids(st) THEN st
       ELSE resolveRound([st EXCEPT !.Status = "RESOLVING"])

\* mutant: a stored bid is announced to the other player
SubmitMsgs_Announced(gid, gm, u, bid) ==
    LET n == PlayerNum(gm, u)
        err == BidError(bid, BalanceOf(gm, n))
        st == StoreBid(gm, n, bid)
    IN IF err # "" THEN sendError(u, err)
       ELSE IF ~BothBids(st)
       THEN <<[to |-> IF gm.Player1 = u THEN gm.Player2 ELSE gm.Player1,
               type |-> "opponent_bid", gameId |-> gid, bid |-> bid]>>
       ELSE ResolveMsgs(gid, st)

\* handleSubmitBid for player u of the match record gm: the envelopes it sends
\* to the players
SubmitMsgs(gid, gm, u, bid) ==
    LET n == PlayerNum(gm, u)
        err == BidError(bid, BalanceOf(gm, n))
        st == StoreBid(gm, n, bid)
    IN IF err # "" THEN sendError(u, err)
       ELSE IF ~BothBids(st) THEN <<>>
       ELSE ResolveMsgs(gid, st)

handleSubmitBid(u, gid, bid) ==
    /\ From(u)
    /\ UNCHANGED <<clients, users, challenges, now, fresh>>
    /\ IF gid \notin DOMAIN games \/ PlayerNum(games[gid], u) = 0
       THEN out' = <<>> /\ UNCHANGED <<games, userRec, timers>>
       ELSE LET gm == games[gid]
                st == StoreBid(gm, PlayerNum(gm, u), bid)
            IN IF ~Resolves(u, gid, bid)
               THEN /\ games' = [games EXCEPT ![gid] = SubmitGame(gm, u, bid)]
                    /\ out' = SubmitMsgs(gid, gm, u, bid)
                    /\ UNCHANGED <<userRec, timers>>
               ELSE /\ games' = [games EXCEPT ![gid] = SubmitGame(gm, u, bid)]
                    /\ IF checkWinCondition(Settle(st))[1] > 0
                       THEN /\ userRec' = ClearInGame(userRec, gm)
                            /\ timers' = timers \cup {gid}
                            /\ out' = SubmitMsgs(gid, gm, u, bid)
                                      \o broadcastUserList(users, userRec', Ascending(users))
                       ELSE /\ out' = SubmitMsgs(gid, gm, u, bid)
                            /\ UNCHANGED <<userRec, timers>>

\* mutant: the request is answered to the requester as well
RematchMsgs_Echo(u, gid) ==
    <<[to |-> Opponent(games[gid], u), type |-> "rematch_received",
       gameId |-> gid, fromUserId |-> u],
      [to |-> u, type |-> "rematch_received", gameId |-> gid, fromUserId |-> u]>>

\* handleRematch: the notification to the other player
RematchMsgs(u, gid) ==
    <<[to |-> Opponent(games[gid], u), type |-> "rematch_received",
       gameId |-> gid, fromUserId |-> u]>>

handleRematch(u, gid) ==
    /\ From(u)
    /\ UNCHANGED <<clients, users, userRec, challenges, games, timers, now, fresh>>
    /\ IF gid \notin DOMAIN games \/ PlayerNum(games[gid], u) = 0
       THEN out' = <<>>
       ELSE out' = RematchMsgs(u, gid)

\* mutant: the player who resigns is recorded as the winner
ResignWinner_Self(gm, u) == IF gm.Player1 = u THEN 1 ELSE 2

\* handleResign: the opponent's player number
ResignWinner(gm, u) == IF gm.Player1 = u THEN 2 ELSE 1

\* mutant: the GameOver test is missing
ResignIgnored_NoOverCheck(u, gid) ==
    gid \notin DOMAIN games \/ PlayerNum(games[gid], u) = 0

\* mutant: the sender is not looked up among the two players
ResignIgnored_AnySender(u, gid) ==
    gid \notin DOMAIN games \/ games[gid].GameOver

\* handleResign: the three early returns
ResignIgnored(u, gid) ==
    gid \notin DOMAIN games \/ games[gid].GameOver \/ PlayerNum(games[gid], u) = 0

handleResign(u, gid) ==
    /\ From(u)
    /\ UNCHANGED <<clients, users, challenges, now, fresh>>
    /\ IF ResignIgnored(u, gid)
       THEN out' = <<>> /\ UNCHANGED <<games, userRec, timers>>
       ELSE LET gm == games[gid]
                winner == ResignWinner(gm, u)
                end(to) == [to |-> to, type |-> "game_end", gameId |-> gid,
                            winner |-> winner, reason |-> "Opponent resigned"]
            IN /\ games' = [games EXCEPT ![gid] =
                              [gm EXCEPT !.GameOver = TRUE, !.Winner = winner,
                                         !.Status = "GAME_OVER"]]
               /\ userRec' = ClearInGame(userRec, gm)
               /\ timers' = timers \cup {gid}
               /\ out' = <<end(Opponent(gm, u)), end(u)>>
                         \o broadcastUserList(users, userRec', Ascending(users))

\* handleClientMessage: default case
unknownMessage(u) ==
    /\ From(u)
    /\ out' = <<>>
    /\ UNCHANGED <<clients, users, userRec, challenges, games, timers, now, fresh>>

\* mutant: the goroutine ends without deleting the game
removeGame_Forgets(gid) ==
    /\ gid \in timers
    /\ timers' = timers \ {gid}
    /\ out' = <<>>
    /\ UNCHANGED <<clients, users, userRec, challenges, games, now, fresh>>

\* the goroutine started by resolveRound / handleResign wakes up
removeGame(gid) ==
    /\ gid \in timers
    /\ timers' = timers \ {gid}
    /\ games' = Restrict(games, DOMAIN games \ {gid})
    /\ out' = <<>>
    /\ UNCHANGED <<clients, users, userRec, challenges, now, fresh>>

\* time passes between two events
Tick(d) ==
    /\ now + d <= MaxNow
    /\ now' = now + d
    /\ out' = <<>>
    /\ UNCHANGED <<clients, users, userRec, challenges, games, timers, fresh>>

\* ------------------------------------------------------------ specifications
Next ==
    \/ \E c \in UserIds : handleConnect(c) /\ UNCHANGED env
    \/ \E c \in UserIds : handleDisconnect(c) /\ UNCHANGED env
    \/ \E u \in UserIds, t \in UserIds :
            handleChallenge(u, t) /\ fresh'.challenge \in LobbyChallengeIds \cup {0}
                                  /\ UNCHANGED env
    \/ \E u \in UserIds, c \in ChallengeIds : handleAcceptChallenge(u, c) /\ UNCHANGED env
    \/ \E u \in UserIds, c \in ChallengeIds : handleDeclineChallenge(u, c) /\ UNCHANGED env
    \/ checkExpiredChallenges /\ UNCHANGED env
    \/ \E u \in UserIds, g \in GameIds, b \in BidValues :
            handleSubmitBid(u, g, b) /\ RoundsWithin(MaxHistory) /\ UNCHANGED env
    \/ \E u \in UserIds, g \in GameIds : handleRematch(u, g) /\ UNCHANGED env
    \/ \E u \in UserIds, g \in GameIds : handleResign(u, g) /\ UNCHANGED env
    \/ \E u \in UserIds : unknownMessage(u) /\ UNCHANGED env
    \/ \E g \in GameIds : removeGame(g) /\ UNCHANGED env
    \/ \E d \in TickSteps : Tick(d) /\ UNCHANGED env

Spec == Init /\ [][Next]_vars

\* Sessions: the lobby without bids: connections come and go, challenges are
\* sent, accepted, declined and swept, matches end by resign or disconnect.
NextSessions ==
    \/ \E c \in UserIds : handleConnect(c) /\ UNCHANGED env
    \/ \E c \in UserIds : handleDisconnect(c) /\ UNCHANGED env
    \/ \E u \in UserIds, t \in UserIds :
            handleChallenge(u, t) /\ fresh'.challenge \in LobbyChallengeIds \cup {0}
                                  /\ UNCHANGED env
    \/ \E u \in UserIds, c \in ChallengeIds : handleAcceptChallenge(u, c) /\ UNCHANGED env
    \/ \E u \in UserIds, c \in ChallengeIds : handleDeclineChallenge(u, c) /\ UNCHANGED env
    \/ checkExpiredChallenges /\ UNCHANGED env
    \/ \E u \in UserIds, g \in GameIds : handleResign(u, g) /\ UNCHANGED env
    \/ \E g \in GameIds : removeGame(g) /\ UNCHANGED env
    \/ \E d \in TickSteps : Tick(d) /\ UNCHANGED env

SpecSessions == Init /\ [][NextSessions]_vars

\* Pairing: connections, challenges, accepts and resigns only.
NextPairing ==
    \/ \E c \in UserIds : handleConnect(c) /\ UNCHANGED env
    \/ \E u \in UserIds, t \in UserIds : handleChallenge(u, t) /\ UNCHANGED env
    \/ \E u \in UserIds, c \in ChallengeIds : handleAcceptChallenge(u, c) /\ UNCHANGED env
    \/ \E u \in UserIds, g \in GameIds : handleResign(u, g) /\ UNCHANGED env

SpecPairing == Init /\ [][NextPairing]_vars

\* Strays: users connect and pair up, and every user sends bids, resigns,
\* rematch requests and envelopes of unknown type for every match id, its own
\* matches or not.
NextStray ==
    \/ \E c \in UserIds : handleConnect(c) /\ UNCHANGED env
    \/ \E u \in UserIds, t \in UserIds :
            handleChallenge(u, t) /\ fresh'.challenge \in LobbyChallengeIds \cup {0}
                                  /\ UNCHANGED env
    \/ \E u \in UserIds, c \in ChallengeIds : handleAcceptChallenge(u, c) /\ UNCHANGED env
    \/ \E u \in UserIds, g \in GameIds, b \in BidValues :
            handleSubmitBid(u, g, b) /\ RoundsWithin(MaxHistory) /\ UNCHANGED env
    \/ \E u \in UserIds, g \in GameIds : handleRematch(u, g) /\ UNCHANGED env
    \/ \E u \in UserIds, g \in GameIds : handleResign(u, g) /\ UNCHANGED env
    \/ \E u \in UserIds : unknownMessage(u) /\ UNCHANGED env

SpecStray == Init /\ [][NextStray]_vars

\* One match: the state of the hub right after user 2 accepted the challenge of
\* user 1.
InitGame ==
    /\ clients = {1, 2}
    /\ users = {1, 2}
    /\ userRec = [u \in UserIds |->
                    IF u \in {1, 2} THEN [InGame |-> TRUE, GameID |-> 1]
                    ELSE [InGame |-> FALSE, GameID |-> NoGame]]
    /\ challenges = <<>>
    /\ games = Put(<<>>, 1, NewGame(1, 2))
    /\ timers = {}
    /\ now = 0
    /\ fresh = [user |-> 2, challenge |-> 1, game |-> 1]
    /\ out = <<[to |-> 1, type |-> "game_start", gameId |-> 1, opponentId |-> 2, yourPlayer |-> 1],
               [to |-> 2, type |-> "game_start", gameId |-> 1, opponentId |-> 1, yourPlayer |-> 2]>>
             \o sendWaitingForBids(1, NewGame(1, 2))
             \o broadcastUserList(users, userRec, Ascending(users))

InitMatch == InitGame /\ script = NoScript /\ Atomic

NextMatch ==
    \/ \E u \in {1, 2}, b \in MatchBidValues :
            handleSubmitBid(u, 1, b) /\ RoundsWithin(MaxHistory) /\ UNCHANGED env
    \/ removeGame(1) /\ UNCHANGED env

SpecMatch == InitMatch /\ [][NextMatch]_vars

\* One match in which either player may also resign.
NextResign ==
    \/ \E u \in {1, 2}, b \in ResignBidValues :
            handleSubmitBid(u, 1, b) /\ RoundsWithin(MaxHistory) /\ UNCHANGED env
    \/ \E u \in {1, 2} : handleResign(u, 1) /\ UNCHANGED env
    \/ removeGame(1) /\ UNCHANGED env

SpecResign == InitMatch /\ [][NextResign]_vars

\* One match with every event that can reach it while both players stay
\* connected: bids, resigns, rematch requests, the expiry sweep, the removal.
NextEvents ==
    \/ \E u \in {1, 2}, b \in EventBidValues :
            handleSubmitBid(u, 1, b) /\ RoundsWithin(MaxHistory) /\ UNCHANGED env
    \/ \E u \in {1, 2} : handleResign(u, 1) /\ UNCHANGED env
    \/ \E u \in {1, 2} : handleRematch(u, 1) /\ UNCHANGED env
    \/ checkExpiredChallenges /\ UNCHANGED env
    \/ removeGame(1) /\ UNCHANGED env

SpecEvents == InitMatch /\ [][NextEvents]_vars

\* One match up to its removal: bids, resigns, the disconnect of a player and the
\* removal goroutine, which the Go scheduler runs once its sleep is over (weak
\* fairness: from its start to its delete it is always ready to run).
NextGrace ==
    \/ \E u \in {1, 2}, b \in EventBidValues :
            handleSubmitBid(u, 1, b) /\ RoundsWithin(MaxHistory) /\ UNCHANGED env
    \/ \E u \in {1, 2} : handleResign(u, 1) /\ UNCHANGED env
    \/ \E c \in {1, 2} : handleDisconnect(c) /\ UNCHANGED env
    \/ removeGame(1) /\ UNCHANGED env

SpecGrace ==
    InitMatch /\ [][NextGrace]_vars /\ WF_vars(removeGame(1) /\ UNCHANGED env)

\* The lobby under a running ticker: the clock advances, by the shortest time
\* after which a challenge is expired, and the sweep of the ticker case is taken
\* again and again. Challenges are sent while the clock of the model has room
\* left for them to expire.
ExpirySteps == {CHALLENGE_EXPIRY + 1}

NextExpiry ==
    \/ \E c \in UserIds : handleConnect(c) /\ UNCHANGED env
    \/ \E c \in UserIds : handleDisconnect(c) /\ UNCHANGED env
    \/ \E u \in UserIds, t \in UserIds :
            handleChallenge(u, t) /\ fresh'.challenge \in LobbyChallengeIds \cup {0}
                                  /\ now + CHALLENGE_EXPIRY < MaxNow
                                  /\ UNCHANGED env
    \/ \E u \in UserIds, c \in ChallengeIds : handleAcceptChallenge(u, c) /\ UNCHANGED env
    \/ \E u \in UserIds, c \in ChallengeIds : handleDeclineChallenge(u, c) /\ UNCHANGED env
    \/ checkExpiredChallenges /\ UNCHANGED env
    \/ \E d \in ExpirySteps : Tick(d) /\ UNCHANGED env

SpecExpiry ==
    /\ Init /\ [][NextExpiry]_vars
    /\ WF_vars(checkExpiredChallenges /\ UNCHANGED env)
    /\ WF_vars(\E d \in ExpirySteps : Tick(d) /\ UNCHANGED env)

\* One match played on after its end: the players bid nothing or one coin, for
\* one round more than the two players together need to reach the last step.
RaceBidValues == {0, 1}
RaceRounds == 2 * MAX_STEPS + 1

NextRace ==
    \/ \E u \in {1, 2}, b \in RaceBidValues :
            handleSubmitBid(u, 1, b) /\ RoundsWithin(RaceRounds) /\ UNCHANGED env
    \/ removeGame(1) /\ UNCHANGED env

SpecRace == InitMatch /\ [][NextRace]_vars

\* The scripted match: the bid pairs (player-one / player-two) of the five
\* rounds of TestFullGameSequence, and every five-round sequence made of them.
ScenarioC == << <<5, 3>>, <<3, 6>>, <<8, 4>>, <<5, 5>>, <<7, 2>> >>
ScenarioPairs == {ScenarioC[i] : i \in DOMAIN ScenarioC}
Scripts == [DOMAIN ScenarioC -> ScenarioPairs]

\* the k-th submit_bid of a script: player-one's bid of a round, then player-two's
ScriptUser(k) == IF k % 2 = 1 THEN 1 ELSE 2
ScriptBid(rounds, k) == rounds[(k + 1) \div 2][ScriptUser(k)]
ScriptDone == script.rounds # <<>> /\ script.sent = 2 * Len(script.rounds)

\* the next submit_bid of the script reaches the hub
scriptedBid ==
    /\ script.sent < 2 * Len(script.rounds)
    /\ handleSubmitBid(ScriptUser(script.sent + 1), 1,
                       ScriptBid(script.rounds, script.sent + 1))
    /\ RoundsWithin(MaxHistory)
    /\ script' = [script EXCEPT !.sent = @ + 1]
    /\ UNCHANGED <<core, send, queue>>

InitScenario ==
    InitGame /\ Atomic /\ \E r \in Scripts : script = [rounds |-> r, sent |-> 0]

NextScenario ==
    \/ scriptedBid
    \/ removeGame(1) /\ UNCHANGED env

SpecScenario == InitScenario /\ [][NextScenario]_vars

\* The hub goroutine step by step: one match, with the sends of a handler as
\* steps of their own, the writers of the connections, and the removal
\* goroutines running beside the hub.
\* Hub.run: an event is taken from a channel and its handler runs up to its
\* first send
Handle(handler) ==
    /\ core.pc = "select"
    /\ handler
    /\ core' = IF out' = <<>> THEN Idle
               ELSE [pc |-> "sending", n |-> 0, armed |-> timers]
    /\ UNCHANGED <<script, send, queue>>

\* sendToClient: client.send <- data, possible only while the channel has room
sendToClient ==
    /\ core.pc = "sending"
    /\ LET to == out[core.n + 1].to
       IN /\ send[to] < SendCap
          /\ send' = [send EXCEPT ![to] = @ + 1]
    /\ core' = IF core.n + 1 = Len(out) THEN Idle ELSE [core EXCEPT !.n = @ + 1]
    /\ UNCHANGED <<hubVars, out, script, queue>>

\* the writer of a connection takes one envelope from client.send
writePump(u) ==
    /\ send[u] > 0
    /\ send' = [send EXCEPT ![u] = @ - 1]
    /\ UNCHANGED <<hubVars, out, script, core, queue>>

\* a removal goroutine wakes up while the hub is in its select
removeIdle(gid) ==
    /\ core.pc = "select"
    /\ removeGame(gid)
    /\ UNCHANGED env

\* a removal goroutine that was asleep when the handler started wakes up while
\* the handler is still running: both touch h.games without synchronisation, and
\* the Go runtime either lets the delete through or stops the process
removeRacing(gid) ==
    /\ core.pc = "sending"
    /\ gid \in core.armed \cap timers
    /\ timers' = timers \ {gid}
    /\ games' = Restrict(games, DOMAIN games \ {gid})
    /\ \/ core' = [core EXCEPT !.armed = @ \ {gid}]
       \/ core' = [pc |-> "crashed", n |-> 0, armed |-> {}]
    /\ UNCHANGED <<clients, users, userRec, challenges, now, fresh, out, script, send, queue>>

NextCore ==
    \/ \E u \in {1, 2}, b \in CoreBidValues :
            Handle(handleSubmitBid(u, 1, b) /\ RoundsWithin(MaxHistory))
    \/ \E u \in {1, 2} : Handle(handleResign(u, 1))
    \/ \E u \in {1, 2} : Handle(handleRematch(u, 1))
    \/ sendToClient
    \/ \E u \in {1, 2} : writePump(u)
    \/ removeIdle(1)
    \/ removeRacing(1)

SpecCore == InitMatch /\ [][NextCore]_vars

\* The inbound channels: connections register, their readers put envelopes into
\* h.handleMessage and hand the connection to h.unregister when they stop, and
\* the select of Hub.run takes whichever channel is ready.
\* the envelopes a reader decodes (unset fields hold Go's zero value)
Envelope(c, type, id) == [client |-> c, type |-> type, id |-> id, bid |-> 0]
QueueEnvelopes(c) ==
    {Envelope(c, "challenge", t) : t \in UserIds}
        \cup {Envelope(c, "accept_challenge", i) : i \in LobbyChallengeIds}

\* the process has stopped with a panic
Crashed == [pc |-> "crashed", n |-> 0, armed |-> {}]

\* the reader of connection c is running
Reading(c) == core.pc = "select" /\ c \in clients /\ c \notin queue.unregister

\* the reader of a connection decodes an envelope and puts it into h.handleMessage
readPump(c, m) ==
    /\ Reading(c)
    /\ Len(queue.handleMessage) < QueueCap
    /\ queue' = [queue EXCEPT !.handleMessage = Append(@, m)]
    /\ UNCHANGED <<hubVars, out, script, core, send>>

\* the reader of a connection stops (the peer is gone) and hands the connection
\* to h.unregister, where it waits for the hub
readPumpExit(c) ==
    /\ Reading(c)
    /\ queue' = [queue EXCEPT !.unregister = @ \cup {c}]
    /\ UNCHANGED <<hubVars, out, script, core, send>>

\* handleClientMessage
handleClientMessage(m) ==
    CASE m.type = "challenge" -> handleChallenge(m.client, m.id)
      [] m.type = "accept_challenge" -> handleAcceptChallenge(m.client, m.id)
      [] m.type = "decline_challenge" -> handleDeclineChallenge(m.client, m.id)
      [] m.type = "submit_bid" -> handleSubmitBid(m.client, m.id, m.bid)
      [] m.type = "rematch" -> handleRematch(m.client, m.id)
      [] m.type = "resign" -> handleResign(m.client, m.id)
      [] OTHER -> unknownMessage(m.client)

\* Hub.run, case client := <-h.register
selectRegister(c) ==
    /\ core.pc = "select"
    /\ handleConnect(c)
    /\ UNCHANGED env

\* Hub.run, case client := <-h.unregister
selectUnregister(c) ==
    /\ core.pc = "select"
    /\ c \in queue.unregister
    /\ handleDisconnect(c)
    /\ queue' = [queue EXCEPT !.unregister = @ \ {c}]
    /\ UNCHANGED <<script, core, send>>

\* sendToClient: client.send <- data panics when the unregister case has closed
\* the channel, which it does for every connection it takes out of h.clients
SendsOnClosed(msgs) == \E i \in DOMAIN msgs : msgs[i].to \notin clients

\* Hub.run, case wrapper := <-h.handleMessage
selectMessage ==
    /\ core.pc = "select"
    /\ queue.handleMessage # <<>>
    /\ handleClientMessage(Head(queue.handleMessage))
    /\ queue' = [queue EXCEPT !.handleMessage = Tail(@)]
    /\ core' = IF SendsOnClosed(out') THEN Crashed ELSE core
    /\ UNCHANGED <<script, send>>

NextQueue ==
    \/ \E c \in UserIds : selectRegister(c)
    \/ \E c \in UserIds : \E m \in QueueEnvelopes(c) : readPump(c, m)
    \/ \E c \in UserIds : readPumpExit(c)
    \/ \E c \in UserIds : selectUnregister(c)
    \/ selectMessage

SpecQueue == Init /\ [][NextQueue]_vars

\* ------------------------------------------------------------------- claims
\* inputs of submit_bid over both specifications
AllBids == BidValues \cup MatchBidValues

\* the step is the submit_bid of u that completes the pair and resolves a round of g
ResolveStep(u, g, b) == Resolves(u, g, b) /\ handleSubmitBid(u, g, b)

\* the two bids resolveRound reads when u's bid b completes the pair
StoredBid1(u, g, b) ==
    IF PlayerNum(games[g], u) = 1 THEN b ELSE games[g].Player1Bid[1]
StoredBid2(u, g, b) ==
    IF PlayerNum(games[g], u) = 2 THEN b ELSE games[g].Player2Bid[1]

Last(h) == h[Len(h)]

HasMsg(to, type) == \E i \in DOMAIN out : out[i].to = to /\ out[i].type = type

\* C1 (all-pay law): in every step that resolves a round with stored bids b1
\* and b2, player-one's balance drops by exactly b1 and player-two's by exactly
\* b2, whoever wins the round.
C1_AllPay ==
    [][\A u \in UserIds, g \in GameIds, b \in AllBids :
        ResolveStep(u, g, b) =>
            /\ games'[g].Player1Balance = games[g].Player1Balance - StoredBid1(u, g, b)
            /\ games'[g].Player2Balance = games[g].Player2Balance - StoredBid2(u, g, b)]_vars

\* a round was just resolved that player-two lost with a positive bid, and paid for
C1_Witness ==
    \E i \in DOMAIN out :
        /\ out[i].type = "round_result"
        /\ out[i].result = "P1_WINS_ROUND"
        /\ out[i].p2Bid > 0
        /\ out[i].gameId \in DOMAIN games
        /\ games[out[i].gameId].Player2Balance = out[i].p2Balance
        /\ out[i].p2Balance < INITIAL_BUDGET

EndSent(msgs, gid, gm, winner, reason) ==
    \A p \in {gm.Player1, gm.Player2} :
        \E i \in DOMAIN msgs :
            msgs[i] = [to |-> p, type |-> "game_end", gameId |-> gid,
                       winner |-> winner, reason |-> reason]

NoEndSent(msgs) == \A i \in DOMAIN msgs : msgs[i].type # "game_end"

\* C3 (win-check priority): after a resolved round, player-one at MAX_STEPS or
\* beyond is the winner with reason "Reached final step"; otherwise player-two at
\* MAX_STEPS or beyond is; the balances (both zero or not) play no part.
C3_WinPriority ==
    [][\A u \in UserIds, g \in GameIds, b \in AllBids :
        ResolveStep(u, g, b) =>
            LET gm == games'[g]
                w == IF gm.Player1Pos >= MAX_STEPS THEN 1 ELSE 2
            IN (gm.Player1Pos >= MAX_STEPS \/ gm.Player2Pos >= MAX_STEPS) =>
                  /\ gm.GameOver /\ gm.Winner = w /\ gm.Status = "GAME_OVER"
                  /\ EndSent(out', g, gm, w, "Reached final step")]_vars

\* a player reached MAX_STEPS in the round that left both balances at zero
C3_Witness ==
    \E g \in DOMAIN games :
        /\ games[g].Player1Pos = MAX_STEPS /\ games[g].Player2Pos < MAX_STEPS
        /\ Last(games[g].History).Result = "P1_WINS_ROUND"
        /\ games[g].Player1Balance = 0 /\ games[g].Player2Balance = 0
        /\ games[g].Winner = 1
        /\ EndSent(out, g, games[g], 1, "Reached final step")

PlayersOf(gm) == {gm.Player1, gm.Player2}

\* C5 (one live match per identity): no identity is a player of two matches of
\* the map that are not over.
C5_OneLiveMatch ==
    \A u \in UserIds :
        Cardinality({g \in DOMAIN games :
                        ~games[g].GameOver /\ u \in PlayersOf(games[g])}) <= 1

\* C6 (balances): every balance of every match in the map lies in
\* 0..INITIAL_BUDGET, and no step increases a balance.
C6_BalanceRange ==
    \A g \in DOMAIN games :
        /\ games[g].Player1Balance \in 0..INITIAL_BUDGET
        /\ games[g].Player2Balance \in 0..INITIAL_BUDGET

C6_Balances ==
    /\ []C6_BalanceRange
    /\ [][\A g \in DOMAIN games \cap DOMAIN games' :
            /\ games'[g].Player1Balance <= games[g].Player1Balance
            /\ games'[g].Player2Balance <= games[g].Player2Balance]_vars

\* C7 (positions): every position of every match in the map lies in
\* 0..MAX_STEPS, and no step decreases a position.
C7_PositionRange ==
    \A g \in DOMAIN games :
        /\ games[g].Player1Pos \in 0..MAX_STEPS
        /\ games[g].Player2Pos \in 0..MAX_STEPS

C7_Positions ==
    /\ []C7_PositionRange
    /\ [][\A g \in DOMAIN games \cap DOMAIN games' :
            /\ games'[g].Player1Pos >= games[g].Player1Pos
            /\ games'[g].Player2Pos >= games[g].Player2Pos]_vars

\* C8 (pending challenges): no two pending challenges share sender and recipient.
C8_OnePendingPerPair ==
    \A c \in DOMAIN challenges, d \in DOMAIN challenges :
        (/\ challenges[c].FromUser = challenges[d].FromUser
         /\ challenges[c].ToUser = challenges[d].ToUser) => c = d

\* a second challenge to the same recipient was just refused; the first is pending
C8_Witness ==
    \E c \in DOMAIN challenges :
        /\ challenges[c].FromUser # challenges[c].ToUser
        /\ out = sendError(challenges[c].FromUser,
                           "You already have a pending challenge to this user")

OwnBid(gm, n) == IF n = 1 THEN gm.Player1Bid ELSE gm.Player2Bid
OtherBid(gm, n) == IF n = 1 THEN gm.Player2Bid ELSE gm.Player1Bid
OwnHistBid(h, n) == IF n = 1 THEN h.P1Bid ELSE h.P2Bid

\* C9 (bid validation): a submit_bid of a player of the match with a bid below 0
\* or above that player's balance sends one error to the sender and changes
\* nothing else; a bid within 0..balance is taken: it is the player's stored bid,
\* or the bid of the round it resolved, and no error is sent.
C9_BidValidation ==
    [][\A u \in UserIds, g \in GameIds, b \in AllBids :
        (/\ g \in DOMAIN games
         /\ PlayerNum(games[g], u) # 0
         /\ handleSubmitBid(u, g, b)) =>
            LET n == PlayerNum(games[g], u)
                bal == BalanceOf(games[g], n)
            IN IF b < 0 \/ b > bal
               THEN /\ Len(out') = 1 /\ out'[1].to = u /\ out'[1].type = "error"
                    /\ UNCHANGED <<clients, users, userRec, challenges, games,
                                   timers, now, fresh>>
               ELSE /\ \A i \in DOMAIN out' : out'[i].type # "error"
                    /\ \/ OwnBid(games'[g], n) = Ptr(b)
                       \/ /\ Len(games'[g].History) = Len(games[g].History) + 1
                          /\ OwnHistBid(Last(games'[g].History), n) = b]_vars

\* a bid above what is left of the balance was just refused, a round later
C9_Witness ==
    \E g \in DOMAIN games, u \in UserIds :
        /\ PlayerNum(games[g], u) # 0
        /\ out = sendError(u, "Bid exceeds your balance")
        /\ BalanceOf(games[g], PlayerNum(games[g], u)) \in 1..(INITIAL_BUDGET - 1)
        /\ ~games[g].GameOver

\* C10 (suspension point): a valid bid that arrives while the other player's bid
\* is absent is stored and nothing else changes (status, balances, positions,
\* round, history, every other table) and nothing is sent; and a round is only
\* ever resolved by a step before which a bid was already pending.
C10_FirstBidSuspends ==
    [][/\ \A u \in UserIds, g \in GameIds, b \in AllBids :
            (/\ g \in DOMAIN games
             /\ PlayerNum(games[g], u) # 0
             /\ b >= 0 /\ b <= BalanceOf(games[g], PlayerNum(games[g], u))
             /\ OtherBid(games[g], PlayerNum(games[g], u)) = Nil
             /\ handleSubmitBid(u, g, b)) =>
                /\ games' = [games EXCEPT ![g] =
                                IF PlayerNum(games[g], u) = 1
                                THEN [games[g] EXCEPT !.Player1Bid = Ptr(b)]
                                ELSE [games[g] EXCEPT !.Player2Bid = Ptr(b)]]
                /\ out' = <<>>
                /\ UNCHANGED <<clients, users, userRec, challenges, timers, now, fresh>>
       /\ \A g \in DOMAIN games \cap DOMAIN games' :
            games'[g].History # games[g].History =>
                (games[g].Player1Bid # Nil \/ games[g].Player2Bid # Nil)]_vars

\* player-two's first bid of round 2 is stored, player-one has not bid yet
C10_Witness ==
    \E g \in DOMAIN games :
        /\ games[g].Status = "WAITING_FOR_BIDS" /\ ~games[g].GameOver
        /\ games[g].CurrentRound = 2 /\ Len(games[g].History) = 1
        /\ games[g].Player1Bid = Nil /\ games[g].Player2Bid # Nil
        /\ out = <<>>

C12_Resign ==
    [][\A u \in UserIds, g \in GameIds :
        (/\ g \in DOMAIN games
         /\ ~games[g].GameOver
         /\ PlayerNum(games[g], u) # 0
         /\ handleResign(u, g)) =>
            LET gm == games[g]
                w == IF PlayerNum(gm, u) = 1 THEN 2 ELSE 1
            IN /\ games' = [games EXCEPT ![g] =
                              [gm EXCEPT !.GameOver = TRUE, !.Winner = w,
                                         !.Status = "GAME_OVER"]]
               /\ EndSent(out', g, gm, w, "Opponent resigned")
               /\ \A p \in PlayersOf(gm) :
                     userRec'[p] = [InGame |-> FALSE, GameID |-> NoGame]]_vars

\* player-one resigned before any bid was submitted: player-two is the winner
C12_Witness ==
    \E g \in DOMAIN games :
        /\ games[g].GameOver /\ games[g].Winner = 2 /\ games[g].Status = "GAME_OVER"
        /\ games[g].History = <<>>
        /\ games[g].Player1Bid = Nil /\ games[g].Player2Bid = Nil
        /\ games[g].Player1Balance = INITIAL_BUDGET
        /\ EndSent(out, g, games[g], 2, "Opponent resigned")
        /\ ~userRec[games[g].Player1].InGame /\ ~userRec[games[g].Player2].InGame

\* C13 (resign after the end): a resign addressed to a Finished match changes
\* no match, no user, no challenge and no timer, and sends nothing.
C13_ResignFinished ==
    [][\A u \in UserIds, g \in GameIds :
        (/\ g \in DOMAIN games
         /\ games[g].GameOver
         /\ handleResign(u, g)) =>
            /\ out' = <<>>
            /\ UNCHANGED <<clients, users, userRec, challenges, games, timers,
                           now, fresh>>]_vars

\* a match that a round ended is still as that round left it, and the step
\* before sent nothing: the loser's resign was ignored
C13_Witness ==
    \E g \in DOMAIN games :
        /\ games[g].GameOver /\ games[g].Status = "GAME_OVER"
        /\ games[g].Winner = 1 /\ games[g].Player1Pos = MAX_STEPS
        /\ BothBids(games[g])
        /\ g \in timers
        /\ out = <<>>

\* C14 (accept / decline guard): an accept_challenge or decline_challenge for an
\* id that is not pending, or by an identity that is not the recipient of the
\* challenge, changes nothing and sends nothing; an accept_challenge sent by the
\* sender of the challenge creates no match and leaves the challenge pending;
\* and an id that left the challenge table never comes back.
C14_AcceptDeclineGuard ==
    [][\A u \in UserIds, c \in ChallengeIds :
        /\ (/\ c \notin DOMAIN challenges \/ challenges[c].ToUser # u
            /\ handleAcceptChallenge(u, c) \/ handleDeclineChallenge(u, c)) =>
                out' = <<>> /\ UNCHANGED hubVars
        /\ (/\ c \in DOMAIN challenges
            /\ challenges[c].FromUser = u
            /\ handleAcceptChallenge(u, c)) =>
                UNCHANGED <<challenges, games, userRec>>
        /\ (c \in DOMAIN challenges' /\ c \notin DOMAIN challenges) =>
                c > fresh.challenge]_vars

\* C15 (accept): the accept_challenge of the recipient of a pending challenge
\* adds exactly one match to the map: sender as player-one, recipient as
\* player-two, round 1, balances INITIAL_BUDGET, positions 0, no bids, status
\* WAITING_FOR_BIDS, not over; it sets InGame and the new GameID on both, removes
\* the challenge, and sends each player game_start (yourPlayer 1 to the sender,
\* 2 to the recipient) before the waiting_for_bids snapshot of round 1.
C15_Accept ==
    [][\A u \in UserIds, c \in ChallengeIds :
        (/\ c \in DOMAIN challenges
         /\ challenges[c].ToUser = u
         /\ handleAcceptChallenge(u, c)) =>
            LET ch == challenges[c]
                new == DOMAIN games' \ DOMAIN games
                before(p, n) ==
                    \E i, j \in DOMAIN out' :
                        /\ i < j
                        /\ out'[i].to = p /\ out'[i].type = "game_start"
                        /\ out'[i].yourPlayer = n /\ out'[i].gameId \in new
                        /\ out'[j].to = p /\ out'[j].type = "waiting_for_bids"
                        /\ out'[j].gameId \in new /\ out'[j].turn = 1
                        /\ out'[j].p1Balance = INITIAL_BUDGET
                        /\ out'[j].p2Balance = INITIAL_BUDGET
                        /\ out'[j].p1Position = 0 /\ out'[j].p2Position = 0
            IN /\ Cardinality(new) = 1
               /\ \A g \in DOMAIN games : games'[g] = games[g]
               /\ \A g \in new :
                     /\ games'[g] =
                          [Player1 |-> ch.FromUser, Player2 |-> ch.ToUser,
                           CurrentRound |-> 1, Status |-> "WAITING_FOR_BIDS",
                           Player1Pos |-> 0, Player2Pos |-> 0,
                           Player1Balance |-> INITIAL_BUDGET,
                           Player2Balance |-> INITIAL_BUDGET,
                           Player1Bid |-> Nil, Player2Bid |-> Nil,
                           GameOver |-> FALSE, Winner |-> 0, History |-> <<>>]
                     /\ userRec'[ch.FromUser] = [InGame |-> TRUE, GameID |-> g]
                     /\ userRec'[ch.ToUser] = [InGame |-> TRUE, GameID |-> g]
               /\ challenges' = Remove(challenges, c)
               /\ before(ch.FromUser, 1) /\ before(ch.ToUser, 2)]_vars

\* a challenge between two identities was just accepted: the new match is there
\* and game_start was the first thing sent
C15_Witness ==
    \E g \in DOMAIN games :
        /\ games[g].Player1 # games[g].Player2
        /\ games[g] = NewGame(games[g].Player1, games[g].Player2)
        /\ userRec[games[g].Player1] = [InGame |-> TRUE, GameID |-> g]
        /\ userRec[games[g].Player2] = [InGame |-> TRUE, GameID |-> g]
        /\ out # <<>> /\ out[1].type = "game_start" /\ out[1].gameId = g
        /\ out[1].to = games[g].Player1 /\ out[1].yourPlayer = 1

\* the identity is a player of a match of the map that is not over
InLiveMatch(u) ==
    \E g \in DOMAIN games : ~games[g].GameOver /\ u \in PlayersOf(games[g])

\* C16 (challenge request): a challenge to a target that is not live changes
\* nothing and sends nothing; a challenge to a target that plays a match that is
\* not over, or that repeats a pending (sender, target) pair, changes nothing and
\* sends one error to the sender; every other challenge stores exactly one new
\* challenge (sender, target, now) and sends challenge_received to the target.
C16_ChallengeRequest ==
    [][\A from \in UserIds, target \in UserIds :
        handleChallenge(from, target) =>
            LET pending == \E c \in DOMAIN challenges :
                              /\ challenges[c].FromUser = from
                              /\ challenges[c].ToUser = target
                new == DOMAIN challenges' \ DOMAIN challenges
            IN IF target \notin users
               THEN out' = <<>> /\ UNCHANGED hubVars
               ELSE IF InLiveMatch(target) \/ pending
               THEN /\ UNCHANGED hubVars
                    /\ Len(out') = 1 /\ out'[1].to = from /\ out'[1].type = "error"
               ELSE /\ Cardinality(new) = 1
                    /\ \A c \in DOMAIN challenges : challenges'[c] = challenges[c]
                    /\ \A c \in new :
                          /\ challenges'[c] = [FromUser |-> from, ToUser |-> target,
                                               Timestamp |-> now]
                          /\ out' = <<[to |-> target, type |-> "challenge_received",
                                       challengeId |-> c, fromUserId |-> from]>>
                    /\ UNCHANGED <<clients, users, userRec, games, timers, now>>]_vars

\* C17 (expiry sweep): a sweep removes exactly the pending challenges whose age
\* is above CHALLENGE_EXPIRY seconds and sends one challenge_expired for each of
\* them, to its sender; the other challenges stay as they are; no match, user,
\* connection or timer changes.
C17_Sweep ==
    [][(/\ clients' = clients /\ games' = games /\ now' = now
        /\ checkExpiredChallenges) =>
        LET old == {c \in DOMAIN challenges :
                        now - challenges[c].Timestamp > CHALLENGE_EXPIRY}
        IN /\ DOMAIN challenges' = DOMAIN challenges \ old
           /\ \A c \in DOMAIN challenges' : challenges'[c] = challenges[c]
           /\ Len(out') = Cardinality(old)
           /\ \A c \in old :
                 \E i \in DOMAIN out' :
                    /\ out'[i].type = "challenge_expired"
                    /\ out'[i].challengeId = c
                    /\ out'[i].to = challenges[c].FromUser
           /\ UNCHANGED <<clients, users, userRec, games, timers, now, fresh>>]_vars

\* a sweep just expired a challenge: every user is still connected, and all
\* that was sent is challenge_expired
C17_Witness ==
    /\ now > CHALLENGE_EXPIRY
    /\ users # {} /\ users = clients
    /\ out # <<>>
    /\ \A i \in DOMAIN out : out[i].type = "challenge_expired" /\ out[i].to \in users

\* C18 (disconnect): after the disconnect of u no match of the map has u as a
\* player, no pending challenge has u as sender or recipient, and u is neither
\* a user nor a connection; for each match of u that was in the map the opponent
\* is sent opponent_disconnected exactly when the match was not over; for each
\* challenge u had sent the recipient is sent challenge_expired.
C18_Disconnect ==
    [][\A u \in UserIds :
        (u \in clients /\ u \notin clients' /\ handleDisconnect(u)) =>
            /\ \A g \in DOMAIN games' : u \notin PlayersOf(games'[g])
            /\ \A c \in DOMAIN challenges' :
                  challenges'[c].FromUser # u /\ challenges'[c].ToUser # u
            /\ u \notin users' /\ u \notin clients'
            /\ \A g \in DOMAIN games :
                  u \in PlayersOf(games[g]) =>
                     ((\E i \in DOMAIN out' :
                          /\ out'[i].type = "opponent_disconnected"
                          /\ out'[i].gameId = g
                          /\ out'[i].to = Opponent(games[g], u))
                      <=> ~games[g].GameOver)
            /\ \A c \in DOMAIN challenges :
                  challenges[c].FromUser = u =>
                     \E i \in DOMAIN out' :
                        /\ out'[i].type = "challenge_expired"
                        /\ out'[i].challengeId = c
                        /\ out'[i].to = challenges[c].ToUser]_vars

\* player-two of a running match just disconnected: the match is gone and
\* player-one was told
C18_Witness ==
    /\ Cardinality(users) = 1 /\ users = clients
    /\ games = <<>> /\ challenges = <<>>
    /\ fresh.game > 0
    /\ \E i \in DOMAIN out :
          out[i].type = "opponent_disconnected" /\ out[i].to \in users

\* C19 (single writer): every step that changes the match map is taken by the
\* hub from its select, as the handling of one event; the match map never
\* changes while a handler of the hub is running.
C19_SingleWriter ==
    [][games' # games => core.pc = "select"]_vars

\* C20 (non-blocking delivery): the hub never stands inside sendToClient in
\* front of a full send channel; whenever it has an envelope to deliver, it can
\* take its next step.
C20_NeverBlocked ==
    core.pc = "sending" => send[out[core.n + 1].to] < SendCap

\* C21: the envelopes and the disconnect of one connection are handled in the
\* order the connection produced them: whenever the hub takes an envelope out of
\* h.handleMessage, the connection that sent it is still registered (its
\* disconnect has not been handled yet).
C21_OrderedQueue ==
    [][Len(queue'.handleMessage) < Len(queue.handleMessage)
            => Head(queue.handleMessage).client \in clients]_vars

\* C22: a rematch request of a player of a match in the map, whatever the
\* match's status, sends exactly one rematch_received (match id, requester) to
\* the other player and changes neither users, challenges nor matches.
C22_Rematch ==
    [][\A u \in UserIds, g \in GameIds :
          (g \in DOMAIN games /\ PlayerNum(games[g], u) # 0 /\ handleRematch(u, g))
            => /\ Len(out') = 1
               /\ out'[1].type = "rematch_received"
               /\ out'[1].to = Opponent(games[g], u)
               /\ out'[1].gameId = g
               /\ out'[1].fromUserId = u
               /\ UNCHANGED <<clients, users, userRec, challenges, games, fresh>>]_vars

\* a rematch request for a Finished match has just been forwarded
C22_Witness ==
    /\ 1 \in DOMAIN games
    /\ games[1].GameOver
    /\ out = <<[to |-> 2, type |-> "rematch_received", gameId |-> 1, fromUserId |-> 1]>>
    /\ core.pc = "sending"

\* the envelopes of msgs addressed to user q, in order
ToUser(msgs, q) == SelectSeq(msgs, LAMBDA m : m.to = q)

\* the bids handleSubmitBid accepts from player number n of the record gm
ValidBids(gm, n) == {b \in MatchBidValues : BidError(b, BalanceOf(gm, n)) = ""}

\* two records of one match that differ at most in the pending bid of player n
SameButBid(gm1, gm2, n) ==
    gm2 = IF n = 1 THEN [gm1 EXCEPT !.Player1Bid = gm2.Player1Bid]
          ELSE [gm1 EXCEPT !.Player2Bid = gm2.Player2Bid]

\* the bid of user e is valid and completes the pair of bids of the record gm
CompletesPair(gm, e, b) ==
    /\ BidError(b, BalanceOf(gm, PlayerNum(gm, e))) = ""
    /\ BothBids(StoreBid(gm, PlayerNum(gm, e), b))

\* C23: blind bidding, as two runs: in every match in which player q has no
\* pending bid, let the other player p submit the valid bid b1 in one run and
\* the valid bid b2 in the other. Both runs send the same envelopes to q and
\* leave match records that differ in p's pending bid only; and every further
\* submit_bid of p or q that does not complete the pair of bids again sends q
\* the same envelopes in both runs and leaves records that differ in p's
\* pending bid only.
C23_BlindBidding ==
    \A g \in DOMAIN games : \A p \in PlayersOf(games[g]) :
        LET gm == games[g]
            n == PlayerNum(gm, p)
            q == Opponent(gm, p)
        IN OtherBid(gm, n) = Nil =>
            \A b1, b2 \in ValidBids(gm, n) :
                LET run1 == SubmitGame(gm, p, b1)
                    run2 == SubmitGame(gm, p, b2)
                IN /\ ToUser(SubmitMsgs(g, gm, p, b1), q) = ToUser(SubmitMsgs(g, gm, p, b2), q)
                   /\ SameButBid(run1, run2, n)
                   /\ \A e \in {p, q}, b \in MatchBidValues :
                        ~CompletesPair(run1, e, b) =>
                            /\ ~CompletesPair(run2, e, b)
                            /\ ToUser(SubmitMsgs(g, run1, e, b), q)
                                    = ToUser(SubmitMsgs(g, run2, e, b), q)
                            /\ SameButBid(SubmitGame(run1, e, b), SubmitGame(run2, e, b), n)

\* player-one has stored a bid in a later round, player-two has not bid yet, and
\* nothing was sent
C23_Witness ==
    /\ 1 \in DOMAIN games
    /\ games[1].CurrentRound = 2
    /\ ~games[1].GameOver
    /\ games[1].Player1Bid = Ptr(5)
    /\ games[1].Player2Bid = Nil
    /\ Cardinality(ValidBids(games[1], 1)) > 1
    /\ out = <<>>

\* the user, challenge and match tables (and the users they hold) are unchanged
TablesUnchanged == UNCHANGED <<clients, users, userRec, challenges, games, timers, fresh>>

\* C24: a submit_bid, resign or rematch that names a match id not in the map,
\* or comes from a user who is neither player of the named match, and an
\* envelope of unknown type, change no table and send nothing: the handler
\* returns and the hub is ready for the next event.
C24_Strays ==
    [][/\ \A u \in UserIds, g \in GameIds :
            (g \notin DOMAIN games \/ PlayerNum(games[g], u) = 0) =>
                /\ \A b \in BidValues :
                        handleSubmitBid(u, g, b) => TablesUnchanged /\ out' = <<>>
                /\ handleResign(u, g) => TablesUnchanged /\ out' = <<>>
                /\ handleRematch(u, g) => TablesUnchanged /\ out' = <<>>
       /\ \A u \in UserIds : unknownMessage(u) => TablesUnchanged /\ out' = <<>>]_vars

\* a connected user who plays in no match has sent a stray envelope: a match
\* nobody has bid in is in the map, untouched, and nothing was sent
C24_Witness ==
    /\ 1 \in DOMAIN games
    /\ games[1] = NewGame(games[1].Player1, games[1].Player2)
    /\ \E u \in clients : PlayerNum(games[1], u) = 0
    /\ out = <<>>

\* a round that left these positions and balances ends the match
TerminalRecord(gm) ==
    \/ gm.Player1Pos >= MAX_STEPS
    \/ gm.Player2Pos >= MAX_STEPS
    \/ gm.Player1Balance = 0 /\ gm.Player2Balance = 0

\* C25: the step that resolves a terminal round leaves the match Finished
\* (GameOver, status GAME_OVER) with a winner code recorded, sends each player
\* round_result and next game_end with that winner and a reason, and leaves
\* both players with InGame false and no match id.
C25_TerminalRound ==
    [][\A u \in UserIds, g \in GameIds, b \in AllBids :
        ResolveStep(u, g, b) =>
            LET gm == games'[g]
            IN TerminalRecord(gm) =>
                /\ gm.GameOver /\ gm.Status = "GAME_OVER" /\ gm.Winner \in {1, 2, 3}
                /\ \A p \in PlayersOf(gm) :
                    /\ userRec'[p] = [InGame |-> FALSE, GameID |-> NoGame]
                    /\ LET mine == ToUser(out', p)
                       IN /\ Len(mine) >= 2
                          /\ mine[1].type = "round_result" /\ mine[1].gameId = g
                          /\ mine[2].type = "game_end" /\ mine[2].gameId = g
                          /\ mine[2].winner = gm.Winner
                          /\ mine[2].reason \in {"Reached final step",
                                                 "Bankruptcy stalemate - higher position wins",
                                                 "Bankruptcy stalemate - draw"}]_vars

\* a terminal round has just been resolved: the match is Finished, game_end
\* follows round_result, both players are free
C25_Witness ==
    /\ 1 \in DOMAIN games
    /\ games[1].GameOver /\ games[1].Winner = 2
    /\ Len(games[1].History) = MAX_STEPS
    /\ Len(out) >= 4
    /\ out[1].type = "round_result" /\ out[3].type = "game_end"
    /\ ~userRec[1].InGame /\ ~userRec[2].InGame

\* C26: the history of a match only grows at its end: a step that resolves a
\* round appends exactly one entry (the round number, the two bids, the two
\* resulting positions, the result tag) behind the unchanged earlier entries,
\* and every other step (a stored or rejected bid, a resign, a rematch request,
\* a sweep) leaves the history of every match that stays in the map as it was.
C26_History ==
    [][\A g \in GameIds :
        (g \in DOMAIN games /\ g \in DOMAIN games') =>
            LET h == games[g].History
                h2 == games'[g].History
            IN /\ h2 # h =>
                    \E u \in PlayersOf(games[g]), b \in EventBidValues : ResolveStep(u, g, b)
               /\ \A u \in PlayersOf(games[g]), b \in EventBidValues :
                    ResolveStep(u, g, b) =>
                        /\ Len(h2) = Len(h) + 1
                        /\ SubSeq(h2, 1, Len(h)) = h
                        /\ Last(h2) = [Turn |-> games[g].CurrentRound,
                                       P1Bid |-> StoredBid1(u, g, b),
                                       P2Bid |-> StoredBid2(u, g, b),
                                       P1NewPos |-> games'[g].Player1Pos,
                                       P2NewPos |-> games'[g].Player2Pos,
                                       Result |-> Last(h2).Result]
                        /\ Last(h2).Result \in {"P1_WINS_ROUND", "P2_WINS_ROUND", "DRAW"}]_vars

\* a third round has been appended behind two earlier entries
C26_Witness ==
    /\ 1 \in DOMAIN games
    /\ Len(games[1].History) = 3
    /\ games[1].History[1].Turn = 1
    /\ games[1].History[3].Turn = 3
    /\ HasMsg(1, "round_result")

C28_Overwrite ==
    [][\A u \in UserIds, g \in GameIds, b \in AllBids :
        (g \in DOMAIN games /\ PlayerNum(games[g], u) # 0 /\ handleSubmitBid(u, g, b)) =>
            LET gm == games[g]
                n == PlayerNum(gm, u)
                valid == 0 <= b /\ b <= BalanceOf(gm, n)
            IN /\ ~valid => games'[g] = gm
               /\ (valid /\ OtherBid(gm, n) = Nil) =>
                    /\ OwnBid(games'[g], n) = Ptr(b)
                    /\ OtherBid(games'[g], n) = Nil
               /\ (valid /\ OtherBid(gm, n) # Nil) =>
                    LET h == Last(games'[g].History)
                    IN /\ Len(games'[g].History) = Len(gm.History) + 1
                       /\ OwnHistBid(h, n) = b
                       /\ OwnHistBid(h, 3 - n) = OtherBid(gm, n)[1]]_vars

\* player-one holds the pending bid 5 and has just had a later bid refused;
\* player-two has not bid
C28_Witness ==
    /\ 1 \in DOMAIN games
    /\ games[1].Player1Bid = Ptr(5)
    /\ games[1].Player2Bid = Nil
    /\ out = sendError(1, "Bid exceeds your balance")

\* C29: in every match in the map at most one player stands at MAX_STEPS or
\* beyond.
C29_OneFinisher ==
    \A g \in DOMAIN games :
        ~(games[g].Player1Pos >= MAX_STEPS /\ games[g].Player2Pos >= MAX_STEPS)

\* what player number n has bid in the rounds of the history h
RECURSIVE HistSum(_, _)
HistSum(h, n) ==
    IF h = <<>> THEN 0 ELSE OwnHistBid(Head(h), n) + HistSum(Tail(h), n)

\* C30: between two events of the hub no match has status RESOLVING, no match
\* with status WAITING_FOR_BIDS holds both pending bids, and no match is half
\* resolved: its balances are the budget minus the bids of the recorded rounds
\* and its positions are those recorded for the last round (0 before the first).
C30_AtomicResolution ==
    \A g \in DOMAIN games :
        LET gm == games[g]
        IN /\ gm.Status # "RESOLVING"
           /\ gm.Status = "WAITING_FOR_BIDS" => ~BothBids(gm)
           /\ gm.Player1Balance = INITIAL_BUDGET - HistSum(gm.History, 1)
           /\ gm.Player2Balance = INITIAL_BUDGET - HistSum(gm.History, 2)
           /\ gm.Player1Pos = IF gm.History = <<>> THEN 0 ELSE Last(gm.History).P1NewPos
           /\ gm.Player2Pos = IF gm.History = <<>> THEN 0 ELSE Last(gm.History).P2NewPos

\* a round has just been resolved and the next one opened: the balance is
\* deducted, the position and the history are updated, no bid is pending
C30_Witness ==
    /\ 1 \in DOMAIN games
    /\ games[1].Status = "WAITING_FOR_BIDS"
    /\ games[1].CurrentRound = 2
    /\ games[1].Player1Balance = 0 /\ games[1].Player1Pos = 1
    /\ Len(games[1].History) = 1
    /\ games[1].Player1Bid = Nil /\ games[1].Player2Bid = Nil
    /\ HasMsg(2, "round_result")

\* the step takes match g out of the map
Removed(g) == g \in DOMAIN games /\ g \notin DOMAIN games'

\* the step is the delete of the removal goroutine of match g
ByGoroutine(g) == g \in timers /\ g \notin timers'

\* the step is the disconnect of a player of match g
ByDisconnect(g) == \E p \in PlayersOf(games[g]) : p \in clients /\ p \notin clients'

\* C31: a Finished match (GameOver) leaves the map only by the delete of its
\* removal goroutine, a match that is not Finished only by the disconnect of one
\* of its players, and every Finished match eventually leaves the map.
C31_Retention ==
    /\ [][\A g \in GameIds :
            Removed(g) => IF games[g].GameOver THEN ByGoroutine(g) ELSE ByDisconnect(g)]_vars
    /\ \A g \in GameIds :
            (g \in DOMAIN games /\ games[g].GameOver) ~> (g \notin DOMAIN games)

\* C31, amended: a Finished match leaves the map by the delete of its removal
\* goroutine or, before that, by the disconnect of one of its players; a match
\* that is not Finished leaves it only by the disconnect of one of its players;
\* every Finished match eventually leaves the map.
C31_Retention_Amended ==
    /\ [][\A g \in GameIds :
            Removed(g) => \/ games[g].GameOver /\ ByGoroutine(g)
                          \/ ByDisconnect(g)]_vars
    /\ \A g \in GameIds :
            (g \in DOMAIN games /\ games[g].GameOver) ~> (g \notin DOMAIN games)

\* the Finished match has been deleted by its goroutine, both players still
\* connected
C31_Witness ==
    /\ games = <<>>
    /\ timers = {}
    /\ clients = {1, 2}
    /\ ~userRec[1].InGame /\ ~userRec[2].InGame

\* C32: a submit_bid for a Finished match changes nothing in its record
\* (balances, positions, history, winner, status) and sends no round_result,
\* waiting_for_bids or game_end.
C32_FinishedAbsorbing ==
    [][\A g \in GameIds :
        (g \in DOMAIN games /\ games[g].GameOver) =>
            \A u \in PlayersOf(games[g]), b \in AllBids :
                handleSubmitBid(u, g, b) =>
                    /\ games'[g] = games[g]
                    /\ \A i \in DOMAIN out' :
                        out'[i].type \notin {"round_result", "waiting_for_bids", "game_end"}]_vars

\* C33: no envelope taken from h.handleMessage makes the hub send to a
\* connection that is not registered any more (its send channel was closed when
\* its unregister was handled).
C33_NoSendOnClosed ==
    [][selectMessage => \A i \in DOMAIN out' : out'[i].to \in clients]_vars

\* C34: the two players of every match of the map are distinct identities, and
\* so are the sender and the recipient of every pending challenge.
C34_DistinctParties ==
    /\ \A g \in DOMAIN games : games[g].Player1 # games[g].Player2
    /\ \A c \in DOMAIN challenges : challenges[c].FromUser # challenges[c].ToUser

\* C35: the InGame flag of a live identity is set exactly when the identity is
\* a player of a match of the map that is not over.
C35_InGameFlag ==
    \A u \in users : userRec[u].InGame <=> InLiveMatch(u)

\* C36: the sender and the recipient of every pending challenge and both
\* players of every match of the map are live identities.
C36_ReferentialIntegrity ==
    /\ \A c \in DOMAIN challenges :
            challenges[c].FromUser \in users /\ challenges[c].ToUser \in users
    /\ \A g \in DOMAIN games : PlayersOf(games[g]) \subseteq users

\* C37 (budget conservation): for every match of the map and each of its two
\* players, the balance plus the bids of that player recorded in the history is
\* INITIAL_BUDGET.
C37_BudgetConservation ==
    \A g \in DOMAIN games :
        /\ games[g].Player1Balance + HistSum(games[g].History, 1) = INITIAL_BUDGET
        /\ games[g].Player2Balance + HistSum(games[g].History, 2) = INITIAL_BUDGET

\* two rounds with different positive bids of the two players are recorded
C37_Witness ==
    /\ 1 \in DOMAIN games
    /\ Len(games[1].History) = 2
    /\ games[1].History[1].P1Bid = 5 /\ games[1].History[1].P2Bid = 15
    /\ games[1].History[2].P1Bid = 15 /\ games[1].History[2].P2Bid = 5
    /\ games[1].Player1Balance = 0 /\ games[1].Player2Balance = 0

\* C38 (round numbering): in every match of the map the k-th history entry
\* records round k, and while the match awaits bids its round counter is the
\* length of the history plus one.
C38_RoundNumbering ==
    \A g \in DOMAIN games :
        /\ \A k \in DOMAIN games[g].History : games[g].History[k].Turn = k
        /\ (games[g].Status = "WAITING_FOR_BIDS" /\ ~games[g].GameOver) =>
                games[g].CurrentRound = Len(games[g].History) + 1

\* every round of the history h has a strictly positive bid
AllPositive(h) == \A k \in DOMAIN h : h[k].P1Bid > 0 \/ h[k].P2Bid > 0

\* C39 (bounded termination): a match whose resolved rounds all have a strictly
\* positive bid is over after at most 2 * INITIAL_BUDGET of them. Every such
\* round takes at least 1 from the two balances together, which start at
\* 2 * INITIAL_BUDGET: the rounds played plus the two balances never exceed
\* 2 * INITIAL_BUDGET; and a match that is not over after a round has no
\* negative balance and something left to bid, so it has played fewer than
\* 2 * INITIAL_BUDGET rounds.
C39_BoundedTermination ==
    \A g \in DOMAIN games :
        LET gm == games[g]
        IN AllPositive(gm.History) =>
            /\ Len(gm.History) + gm.Player1Balance + gm.Player2Balance
                    <= 2 * INITIAL_BUDGET
            /\ ~gm.GameOver =>
                    /\ gm.Player1Balance >= 0 /\ gm.Player2Balance >= 0
                    /\ gm.History # <<>> => gm.Player1Balance + gm.Player2Balance > 0
                    /\ Len(gm.History) < 2 * INITIAL_BUDGET

\* the second round has used up both budgets and the match is over, neither
\* player having reached the last step
C39_Witness ==
    /\ 1 \in DOMAIN games
    /\ games[1].GameOver
    /\ Len(games[1].History) = 2 /\ AllPositive(games[1].History)
    /\ games[1].Player1Balance = 0 /\ games[1].Player2Balance = 0
    /\ games[1].Player1Pos < MAX_STEPS /\ games[1].Player2Pos < MAX_STEPS

\* C40: every pending challenge is eventually removed from the challenge
\* table, when the clock advances and the sweep of the ticker keeps being taken.
C40_ChallengesEnd ==
    \A c \in ChallengeIds :
        (c \in DOMAIN challenges) ~> (c \notin DOMAIN challenges)

\* a challenge that nobody answered has been swept after its expiry
C40_Witness ==
    /\ now > CHALLENGE_EXPIRY
    /\ challenges = <<>>
    /\ \E i \in DOMAIN out : out[i].type = "challenge_expired"

====
